---- MODULE Spec2Model ----
(***************************************************************************)
(* The HTTP authentication controller of jwtgo: the three gin handlers     *)
(* SignUp, SignIn and Refresh of AuthController, the cookie writer         *)
(* request.SetCookies and the DTOs they exchange with the injected         *)
(* AuthService.                                                            *)
(*                                                                         *)
(* A handler runs in its own goroutine and blocks in its one call of the   *)
(* AuthService; it is modelled by two steps, the part up to the call       *)
(* (...Begin) and the part from the capability's return to the handler's   *)
(* return (...Return).  Handlers share no state and have no identity, so   *)
(* the blocked ones form a bag.  The variable resp holds the exchange      *)
(* completed by the latest step, as a caller and the server log see it.    *)
(***************************************************************************)
EXTENDS Integers, Sequences, FiniteSets, Bags, TLC

VARIABLES inflight, \* the handlers blocked in their capability call (a bag)
          resp,     \* the exchange completed by the latest step (NoResp if none)
          users,    \* the accounts of the uniqueness-enforcing capability
          okCount   \* per email, the signups answered 200 so far

vars == <<inflight, resp, users, okCount>>

----------------------------------------------------------------------------
(* Bounds of the model *)

MaxReqs == 2        \* handlers in flight at once
Quantum == 150      \* seconds by which the clock advances in one step

----------------------------------------------------------------------------
(* Constants of the program *)

Second == 1
Hour == 3600
StatusOK == 200
StatusUnauthorized == 401
StatusConflict == 409
StatusInternalServerError == 500

\* context.WithTimeout(context.Background(), 100*time.Second)
Timeout == 100 * Second

\* Duration: 7 * 24 * time.Hour
CookieDuration == 7 * 24 * Hour

----------------------------------------------------------------------------
(* Data *)

Emails == {"a@b.com", "c@d.com"}
Passwords == {"secret1", "secret2"}

\* dto.UserCredentialsDTO, as the Validator middleware hands it over
UserCredentialsDTO == [Email : Emails, Password : Passwords]

NoBody == [Email |-> "", Password |-> ""]

Tokens == {"t1", "t2"}

\* dto.UserTokensDTO
UserTokensDTO == [AccessToken : Tokens, RefreshToken : Tokens]

NoTokens == [AccessToken |-> "", RefreshToken |-> ""]

\* The cookies a request carries: name/value pairs, at most one per name.
CookieNames == {"access_token", "refresh_token"}
Jars == SUBSET (CookieNames \X {"rt1"})

\* The concrete types of the errors the handlers test with errors.As, and
\* two they do not test: the context's deadline error and any other error.
Kinds == {"AlreadyExists", "InvalidCredentials", "InvalidToken",
          "ExpiredToken", "UserNotFound", "DeadlineExceeded", "Other"}

\* The types fmt.Errorf("...: %w", err) and the like put around an error.
Wrappers == {"Other"}

\* Unwrap chains, outermost first: a bare error, or one wrapped once.
Chains == {<<k>> : k \in Kinds} \cup {<<o, k>> : o \in Wrappers, k \in Kinds}

Msgs == {"msg one", "msg two"}

\* A Go error value: the types along its Unwrap chain (outermost first)
\* and the text its Error() returns.
Errors == [chain : Chains, msg : Msgs]

Nil == [chain |-> <<>>, msg |-> ""]

\* What a capability call returns: (value, error).
Failures == [val : {NoTokens}, err : Errors]
SignUpOutcomes == {[val |-> NoTokens, err |-> Nil]} \cup Failures
TokenOutcomes == [val : UserTokensDTO, err : {Nil}] \cup Failures

----------------------------------------------------------------------------
(* Library calls the handlers make *)

\* errors.As(err, &target): some error of the chain has the target's type.
As(err, kind) == \E i \in DOMAIN err.chain : err.chain[i] = kind

\* context.WithTimeout(parent, d) at time now.
WithTimeout(now, d) == [deadline |-> now + d]

\* gin's c.Cookie(name): the value, or an error when the request has none.
Cookie(jar, name) ==
  IF \E p \in jar : p[1] = name
    THEN [val |-> (CHOOSE p \in jar : p[1] = name)[2], err |-> FALSE]
    ELSE [val |-> "", err |-> TRUE]

\* mapper.MapToUserRefreshTokenDTO
MapToUserRefreshTokenDTO(refreshToken) == [RefreshToken |-> refreshToken]

\* The response writer and the server log of one request.
NewWriter == [status |-> 0, body |-> [none |-> ""], cookies |-> <<>>,
              logs |-> <<>>, trace |-> <<>>]

\* c.JSON(code, obj)
JSON(w, code, obj) ==
  [w EXCEPT !.status = code, !.body = obj, !.trace = Append(@, "json")]

\* ac.logger.Error(text, err)
LoggerError(w, text, err) ==
  [w EXCEPT !.logs = Append(@, [text |-> text, err |-> err]),
            !.trace = Append(@, "log")]

\* schema.Cookie
SchemaCookie(name, value, duration) ==
  [Name |-> name, Value |-> value, Duration |-> duration]

\* The http.Cookie that SetCookies builds from one schema.Cookie.
HttpCookie(cookieData, now) ==
  [Name |-> cookieData.Name, Value |-> cookieData.Value, Path |-> "/",
   Domain |-> "", Expires |-> now + cookieData.Duration, HttpOnly |-> TRUE,
   Secure |-> TRUE, SameSite |-> "Strict"]

\* request.SetCookies(c, cookies)
RECURSIVE SetCookies(_, _, _)
SetCookies(w, now, cookies) ==
  IF cookies = <<>> THEN w
  ELSE SetCookies([w EXCEPT !.cookies = Append(@, HttpCookie(Head(cookies), now)),
                            !.trace = Append(@, "set-cookie")],
                  now, Tail(cookies))

\* Mutant: the two token values change places.
TokenCookiesSwapped(userTokensDTO) ==
  << SchemaCookie("access_token", userTokensDTO.RefreshToken, CookieDuration),
     SchemaCookie("refresh_token", userTokensDTO.AccessToken, CookieDuration) >>

\* The two cookies SignIn and Refresh make of a token pair.
TokenCookies(userTokensDTO) ==
  << SchemaCookie("access_token", userTokensDTO.AccessToken, CookieDuration),
     SchemaCookie("refresh_token", userTokensDTO.RefreshToken, CookieDuration) >>

Message(text) == [message |-> text]

----------------------------------------------------------------------------
(* The handlers *)

Call(method, ctx, arg) == [method |-> method, ctx |-> ctx, arg |-> arg]

\* SignUp up to its call of the capability.
SignUpEntry(body) ==
  [pc |-> "waiting", op |-> "signup", body |-> body, jar |-> {}, now |-> 0,
   calls |-> << Call("SignUp", WithTimeout(0, Timeout), body) >>,
   w |-> [NewWriter EXCEPT !.trace = << "call" >>]]

\* Mutant: the conflict branch logs too.
SignUpAfterLogsConflict(w, now, out) ==
  IF out.err # Nil
    THEN IF As(out.err, "AlreadyExists")
           THEN JSON(LoggerError(w, "Error while authorizing: ", out.err),
                     StatusConflict, Message(out.err.msg))
           ELSE JSON(LoggerError(w, "Error while authorizing: ", out.err),
                     StatusInternalServerError, Message(out.err.msg))
    ELSE JSON(w, StatusOK, Message("User successfully registered"))

\* Mutant: the conflict branch answers with http.StatusOK.
SignUpAfterConflictAsOK(w, now, out) ==
  IF out.err # Nil
    THEN IF As(out.err, "AlreadyExists")
           THEN JSON(w, StatusOK, Message(out.err.msg))
           ELSE JSON(LoggerError(w, "Error while authorizing: ", out.err),
                     StatusInternalServerError, Message(out.err.msg))
    ELSE JSON(w, StatusOK, Message("User successfully registered"))

\* SignUp from the capability's return on.
SignUpAfter(w, now, out) ==
  IF out.err # Nil
    THEN IF As(out.err, "AlreadyExists")
           THEN JSON(w, StatusConflict, Message(out.err.msg))
           ELSE JSON(LoggerError(w, "Error while authorizing: ", out.err),
                     StatusInternalServerError, Message(out.err.msg))
    ELSE JSON(w, StatusOK, Message("User successfully registered"))

\* Mutant: the timeout is written without its unit (100 ns, no second).
SignInEntryNoUnit(body) ==
  [pc |-> "waiting", op |-> "signin", body |-> body, jar |-> {}, now |-> 0,
   calls |-> << Call("SignIn", WithTimeout(0, 0), body) >>,
   w |-> [NewWriter EXCEPT !.trace = << "call" >>]]

\* SignIn up to its call of the capability.
SignInEntry(body) ==
  [pc |-> "waiting", op |-> "signin", body |-> body, jar |-> {}, now |-> 0,
   calls |-> << Call("SignIn", WithTimeout(0, Timeout), body) >>,
   w |-> [NewWriter EXCEPT !.trace = << "call" >>]]

\* Mutant: the cookies are set before the error is looked at.
SignInAfterCookiesFirst(w, now, out) ==
  LET w2 == SetCookies(w, now, TokenCookies(out.val)) IN
  IF out.err # Nil
    THEN IF As(out.err, "InvalidCredentials")
           THEN JSON(w2, StatusUnauthorized, Message(out.err.msg))
           ELSE JSON(LoggerError(w2, "Error while registering: ", out.err),
                     StatusInternalServerError, Message(out.err.msg))
    ELSE JSON(w2, StatusOK, Message("Logged in successfully"))

\* Mutant: SignIn classifies with the one table of all operations.
SignInAfterOneTable(w, now, out) ==
  IF out.err # Nil
    THEN IF As(out.err, "AlreadyExists")
           THEN JSON(w, StatusConflict, Message(out.err.msg))
           ELSE IF \/ As(out.err, "InvalidCredentials")
                   \/ As(out.err, "InvalidToken")
                   \/ As(out.err, "ExpiredToken")
                   \/ As(out.err, "UserNotFound")
                  THEN JSON(w, StatusUnauthorized, Message(out.err.msg))
                  ELSE JSON(LoggerError(w, "Error while registering: ", out.err),
                            StatusInternalServerError, Message(out.err.msg))
    ELSE JSON(SetCookies(w, now, TokenCookies(out.val)),
              StatusOK, Message("Logged in successfully"))

\* SignIn from the capability's return on.
SignInAfter(w, now, out) ==
  IF out.err # Nil
    THEN IF As(out.err, "InvalidCredentials")
           THEN JSON(w, StatusUnauthorized, Message(out.err.msg))
           ELSE JSON(LoggerError(w, "Error while registering: ", out.err),
                     StatusInternalServerError, Message(out.err.msg))
    ELSE JSON(SetCookies(w, now, TokenCookies(out.val)),
              StatusOK, Message("Logged in successfully"))

\* Mutant: the error of c.Cookie is dropped and the call is made anyway.
RefreshEntryNoGuard(jar) ==
  [pc |-> "waiting", op |-> "refresh", body |-> NoBody, jar |-> jar, now |-> 0,
   calls |-> << Call("Refresh", WithTimeout(0, Timeout),
                     MapToUserRefreshTokenDTO(Cookie(jar, "refresh_token").val)) >>,
   w |-> [NewWriter EXCEPT !.trace = << "call" >>]]

\* Refresh up to its call of the capability, or to its return when the
\* request has no refresh_token cookie.
RefreshEntry(jar) ==
  LET got == Cookie(jar, "refresh_token") IN
  IF got.err
    THEN [pc |-> "done", op |-> "refresh", body |-> NoBody, jar |-> jar,
          now |-> 0, calls |-> <<>>,
          w |-> JSON(NewWriter, StatusUnauthorized,
                     [error |-> "Invalid refresh token"])]
    ELSE [pc |-> "waiting", op |-> "refresh", body |-> NoBody, jar |-> jar,
          now |-> 0,
          calls |-> << Call("Refresh", WithTimeout(0, Timeout),
                            MapToUserRefreshTokenDTO(got.val)) >>,
          w |-> [NewWriter EXCEPT !.trace = << "call" >>]]

\* Mutant: the UserNotFound test is left out.
RefreshAfterNoUserNotFound(w, now, out) ==
  IF out.err # Nil
    THEN IF \/ As(out.err, "InvalidToken")
            \/ As(out.err, "ExpiredToken")
           THEN JSON(w, StatusUnauthorized, Message(out.err.msg))
           ELSE JSON(LoggerError(w, "Error while refreshing: ", out.err),
                     StatusInternalServerError, Message(out.err.msg))
    ELSE JSON(SetCookies(w, now, TokenCookies(out.val)),
              StatusOK, Message("Tokens updated successfully"))

\* Refresh from the capability's return on.
RefreshAfter(w, now, out) ==
  IF out.err # Nil
    THEN IF \/ As(out.err, "InvalidToken")
            \/ As(out.err, "ExpiredToken")
            \/ As(out.err, "UserNotFound")
           THEN JSON(w, StatusUnauthorized, Message(out.err.msg))
           ELSE JSON(LoggerError(w, "Error while refreshing: ", out.err),
                     StatusInternalServerError, Message(out.err.msg))
    ELSE JSON(SetCookies(w, now, TokenCookies(out.val)),
              StatusOK, Message("Tokens updated successfully"))

----------------------------------------------------------------------------
(* The completed exchange *)

NoResp == [op |-> "none", body |-> NoBody, jar |-> {}, calls |-> <<>>,
           returned |-> FALSE, out |-> [val |-> NoTokens, err |-> Nil],
           now |-> 0, w |-> NewWriter]

\* The exchange of handler state c, whose capability call (if it made one)
\* returned out, and whose writer ended as w.
Exchange(c, returned, out, w) ==
  [op |-> c.op, body |-> c.body, jar |-> c.jar, calls |-> c.calls,
   returned |-> returned, out |-> out, now |-> c.now, w |-> w]

----------------------------------------------------------------------------
(* The capability that enforces email uniqueness *)

\* AuthService.SignUp over the set of registered emails.
StoreSignUp(registered, body) ==
  IF body.Email \in registered
    THEN [val |-> NoTokens,
          err |-> [chain |-> << "AlreadyExists" >>, msg |-> "msg one"]]
    ELSE [val |-> NoTokens, err |-> Nil]

StoreAfterSignUp(registered, body) == registered \cup {body.Email}

----------------------------------------------------------------------------
(* Actions *)

Init ==
  /\ inflight = EmptyBag
  /\ resp = NoResp
  /\ users = {}
  /\ okCount = [e \in Emails |-> 0]

\* POST /auth/signup reaches the handler with a validated body.
SignUpBegin(body) ==
  /\ BagCardinality(inflight) < MaxReqs
  /\ inflight' = inflight (+) SetToBag({SignUpEntry(body)})
  /\ resp' = NoResp
  /\ UNCHANGED <<users, okCount>>

\* POST /auth/signin reaches the handler with a validated body.
SignInBegin(body) ==
  /\ BagCardinality(inflight) < MaxReqs
  /\ inflight' = inflight (+) SetToBag({SignInEntry(body)})
  /\ resp' = NoResp
  /\ UNCHANGED <<users, okCount>>

\* POST /auth/refresh reaches the handler.
RefreshBegin(jar) ==
  /\ BagCardinality(inflight) < MaxReqs
  /\ LET c == RefreshEntry(jar) IN
       IF c.pc = "done"
         THEN /\ resp' = Exchange(c, FALSE, NoResp.out, c.w)
              /\ UNCHANGED inflight
         ELSE /\ inflight' = inflight (+) SetToBag({c})
              /\ resp' = NoResp
  /\ UNCHANGED <<users, okCount>>

\* Time passes for the handlers blocked in the capability; the clock of a
\* call is followed until its deadline has passed.
Tick ==
  /\ inflight # EmptyBag
  /\ \A c \in DOMAIN inflight : c.now < Timeout
  /\ inflight' = [d \in {[c EXCEPT !.now = @ + Quantum] : c \in DOMAIN inflight}
                    |-> inflight[[d EXCEPT !.now = @ - Quantum]]]
  /\ resp' = NoResp
  /\ UNCHANGED <<users, okCount>>

\* The capability's SignUp returns out, whatever it is, and the handler ends.
SignUpReturn(c, out) ==
  /\ BagIn(c, inflight)
  /\ c.op = "signup"
  /\ resp' = Exchange(c, TRUE, out, SignUpAfter(c.w, c.now, out))
  /\ inflight' = inflight (-) SetToBag({c})
  /\ UNCHANGED <<users, okCount>>

\* The capability's SignIn returns out, whatever it is, and the handler ends.
SignInReturn(c, out) ==
  /\ BagIn(c, inflight)
  /\ c.op = "signin"
  /\ resp' = Exchange(c, TRUE, out, SignInAfter(c.w, c.now, out))
  /\ inflight' = inflight (-) SetToBag({c})
  /\ UNCHANGED <<users, okCount>>

\* The capability's Refresh returns out, whatever it is, and the handler ends.
RefreshReturn(c, out) ==
  /\ BagIn(c, inflight)
  /\ c.op = "refresh"
  /\ resp' = Exchange(c, TRUE, out, RefreshAfter(c.w, c.now, out))
  /\ inflight' = inflight (-) SetToBag({c})
  /\ UNCHANGED <<users, okCount>>

\* The uniqueness-enforcing capability's SignUp returns and the handler ends.
SignUpStoreReturn(c) ==
  /\ BagIn(c, inflight)
  /\ c.op = "signup"
  /\ LET out == StoreSignUp(users, c.body)
         w == SignUpAfter(c.w, c.now, out)
     IN /\ resp' = Exchange(c, TRUE, out, w)
        /\ users' = IF out.err = Nil THEN StoreAfterSignUp(users, c.body)
                                     ELSE users
        /\ okCount' = IF w.status = StatusOK
                        THEN [okCount EXCEPT ![c.body.Email] = @ + 1]
                        ELSE okCount
  /\ inflight' = inflight (-) SetToBag({c})

Next ==
  \/ \E body \in UserCredentialsDTO : SignUpBegin(body)
  \/ \E body \in UserCredentialsDTO : SignInBegin(body)
  \/ \E jar \in Jars : RefreshBegin(jar)
  \/ Tick
  \/ \E c \in DOMAIN inflight, out \in SignUpOutcomes : SignUpReturn(c, out)
  \/ \E c \in DOMAIN inflight, out \in TokenOutcomes : SignInReturn(c, out)
  \/ \E c \in DOMAIN inflight, out \in TokenOutcomes : RefreshReturn(c, out)

Spec == Init /\ [][Next]_vars

\* Signups only, against the capability that enforces email uniqueness.
NextSignup ==
  \/ \E body \in UserCredentialsDTO : SignUpBegin(body)
  \/ Tick
  \/ \E c \in DOMAIN inflight : SignUpStoreReturn(c)

SpecSignup == Init /\ [][NextSignup]_vars

----------------------------------------------------------------------------
(* Vocabulary of the properties *)

Range(seq) == {seq[i] : i \in DOMAIN seq}

\* The error, or one it wraps, is of the kind.
Has(err, kind) == kind \in Range(err.chain)

Done == resp.op # "none"
Failed == resp.returned /\ resp.out.err # Nil
Succeeded == resp.returned /\ resp.out.err = Nil
NoRefreshCookie(jar) == \A p \in jar : p[1] # "refresh_token"
MissingCookie == resp.op = "refresh" /\ NoRefreshCookie(resp.jar)

Rejected(err) ==
  Has(err, "InvalidToken") \/ Has(err, "ExpiredToken") \/ Has(err, "UserNotFound")

\* The first place of event x in a trace (0 if it has none).
First(trace, x) ==
  IF x \in Range(trace)
    THEN CHOOSE i \in DOMAIN trace :
           trace[i] = x /\ \A j \in 1..(i - 1) : trace[j] # x
    ELSE 0

Category(status) ==
  CASE status = StatusConflict -> "Conflict"
    [] status = StatusUnauthorized -> "Unauthorized"
    [] status = StatusInternalServerError -> "InternalError"
    [] OTHER -> "none"

\* What the caller sees of a response.
Visible(w) == [status |-> w.status, body |-> w.body, cookies |-> w.cookies]

----------------------------------------------------------------------------
(* C1 *)

\* C1: a Refresh request without a refresh_token cookie is answered 401
\* without any call of AuthService.Refresh: no completed exchange of such a
\* request holds a call or a return of the capability, and no handler
\* blocked in Refresh belongs to such a request.
C1_MissingCookieShortCircuits ==
  /\ MissingCookie =>
       /\ resp.w.status = StatusUnauthorized
       /\ resp.calls = <<>>
       /\ ~ resp.returned
       /\ resp.w.trace = << "json" >>
  /\ \A c \in DOMAIN inflight :
       c.op = "refresh" =>
         /\ ~ NoRefreshCookie(c.jar)
         /\ Len(c.calls) = 1
         /\ c.calls[1].method = "Refresh"
         /\ <<"refresh_token", c.calls[1].arg.RefreshToken>> \in c.jar

C1_Witness ==
  /\ MissingCookie
  /\ resp.w.status = StatusUnauthorized
  /\ resp.jar # {}

----------------------------------------------------------------------------
(* C2 *)

SecureCookie(ck, name, value, now) ==
  /\ ck.Name = name
  /\ ck.Value = value
  /\ ck.Expires - now = 7 * 24 * 3600
  /\ ck.Path = "/"
  /\ ck.Domain = ""
  /\ ck.HttpOnly
  /\ ck.Secure
  /\ ck.SameSite = "Strict"

\* C2: when SignIn or Refresh returns a token pair without error, the
\* response carries exactly two cookies, access_token then refresh_token,
\* with the pair's values, a duration of 7*24 hours, path /, no domain,
\* http-only, secure, same-site strict; and no response carries just one.
C2_TokenPairAsTwoCookies ==
  /\ (Succeeded /\ resp.op \in {"signin", "refresh"}) =>
       /\ Len(resp.w.cookies) = 2
       /\ SecureCookie(resp.w.cookies[1], "access_token",
                       resp.out.val.AccessToken, resp.now)
       /\ SecureCookie(resp.w.cookies[2], "refresh_token",
                       resp.out.val.RefreshToken, resp.now)
  /\ Len(resp.w.cookies) \in {0, 2}

C2_Witness ==
  /\ Succeeded
  /\ resp.op = "refresh"
  /\ resp.out.val.AccessToken # resp.out.val.RefreshToken
  /\ Len(resp.w.cookies) = 2
  /\ resp.now > 0

----------------------------------------------------------------------------
(* C3 *)

\* C3: a failed SignIn or Refresh (the capability returned an error of any
\* kind, or the refresh cookie is missing) is answered 401 or 500 and sets
\* no cookie.
C3_FailureSetsNoCookie ==
  (resp.op \in {"signin", "refresh"} /\ (Failed \/ MissingCookie)) =>
    /\ resp.w.status \in {StatusUnauthorized, StatusInternalServerError}
    /\ resp.w.cookies = <<>>
    /\ "set-cookie" \notin Range(resp.w.trace)

C3_Witness ==
  /\ resp.op = "signin"
  /\ Failed
  /\ resp.out.err.chain = << "Other", "DeadlineExceeded" >>
  /\ resp.w.status = StatusInternalServerError
  /\ resp.w.cookies = <<>>

----------------------------------------------------------------------------
(* C4 *)

\* C4: the status is determined by the capability's outcome ("the error is
\* K" read as errors.As reads it: the error or one it wraps is a K).
\* signup: 200 on success, 409 on AlreadyExists, 500 on any other error;
\* signin: 200 on success, 401 on InvalidCredentials, 500 on any other;
\* refresh: 401 without the cookie, 200 on success, 401 on InvalidToken,
\* ExpiredToken or UserNotFound, 500 on any other.  No other status occurs.
C4_StatusByOutcome ==
  Done =>
    /\ resp.w.status \in {StatusOK, StatusUnauthorized, StatusConflict,
                          StatusInternalServerError}
    /\ resp.op = "signup" =>
         resp.w.status =
           IF resp.out.err = Nil THEN 200
           ELSE IF Has(resp.out.err, "AlreadyExists") THEN 409 ELSE 500
    /\ resp.op = "signin" =>
         resp.w.status =
           IF resp.out.err = Nil THEN 200
           ELSE IF Has(resp.out.err, "InvalidCredentials") THEN 401 ELSE 500
    /\ resp.op = "refresh" =>
         resp.w.status =
           IF NoRefreshCookie(resp.jar) THEN 401
           ELSE IF resp.out.err = Nil THEN 200
           ELSE IF Rejected(resp.out.err) THEN 401 ELSE 500

C4_Witness ==
  /\ resp.op = "refresh"
  /\ Failed
  /\ resp.out.err.chain = << "UserNotFound" >>
  /\ resp.w.status = StatusUnauthorized

----------------------------------------------------------------------------
(* C5 *)

\* The one table of the specification's Error Classifier, rows in order.
TableCategory(err) ==
  IF Has(err, "AlreadyExists") THEN "Conflict"
  ELSE IF Has(err, "InvalidCredentials") \/ Rejected(err) THEN "Unauthorized"
  ELSE "InternalError"

\* The kinds each operation tests for.
OwnKinds(op) ==
  CASE op = "signup" -> {"AlreadyExists"}
    [] op = "signin" -> {"InvalidCredentials"}
    [] op = "refresh" -> {"InvalidToken", "ExpiredToken", "UserNotFound"}
    [] OTHER -> {}

OwnCategory(op) == IF op = "signup" THEN "Conflict" ELSE "Unauthorized"

\* C5 as claimed: every failure returned by SignUp, SignIn or Refresh gets
\* the category of the one table (AlreadyExists: Conflict; InvalidCredentials,
\* InvalidToken, ExpiredToken, UserNotFound: Unauthorized; anything else:
\* InternalError), whichever operation produced it.
C5_OneTableForAllOperations ==
  Failed => Category(resp.w.status) = TableCategory(resp.out.err)

\* C5 as amended: each operation classifies with its own total function of
\* the failure: the kinds it tests for (signup: AlreadyExists; signin:
\* InvalidCredentials; refresh: InvalidToken, ExpiredToken, UserNotFound)
\* get the table's category, and every other failure, the kinds of the
\* other operations included, gets InternalError.
C5_TablePerOperation ==
  Failed =>
    Category(resp.w.status) =
      IF \E k \in OwnKinds(resp.op) : Has(resp.out.err, k)
        THEN OwnCategory(resp.op)
        ELSE "InternalError"

C5_Witness ==
  /\ Failed
  /\ resp.op = "signin"
  /\ resp.out.err.chain = << "AlreadyExists" >>
  /\ Category(resp.w.status) = "InternalError"

----------------------------------------------------------------------------
(* C6 *)

\* An error that is the context's deadline error and of no tested kind.
DeadlineError(err) ==
  /\ Has(err, "DeadlineExceeded")
  /\ \A k \in Kinds \ {"DeadlineExceeded", "Other"} : ~ Has(err, k)

\* C6 as claimed: when the capability has not responded by the deadline of
\* 100 time-units, the operation is cancelled and the request ends with an
\* Internal (500) response without a cookie: every exchange whose call
\* outlasted the deadline is a 500 with no cookie.
C6_DeadlineEndsTheOperation ==
  (resp.returned /\ resp.now > 100) =>
    /\ resp.w.status = StatusInternalServerError
    /\ resp.w.cookies = <<>>

\* C6 as amended: every operation hands the capability a context whose
\* deadline is 100 time-units after call start, and then waits for the
\* capability to return, however long that takes: a response to a request
\* that made the call is written only after the capability has returned.
\* When the capability returns the deadline error the request ends 500,
\* logged, without a cookie; whatever else it returns after the deadline
\* is answered as if it had come in time.
C6_DeadlineIsCooperative ==
  /\ \A c \in DOMAIN inflight :
       /\ c.calls[1].ctx.deadline = 100
       /\ c.w.status = 0
  /\ (Done /\ resp.calls # <<>>) =>
       /\ resp.calls[1].ctx.deadline = 100
       /\ resp.returned
  /\ (Failed /\ DeadlineError(resp.out.err)) =>
       /\ resp.w.status = StatusInternalServerError
       /\ resp.w.cookies = <<>>
       /\ Len(resp.w.logs) = 1
  /\ Succeeded =>
       /\ resp.w.status = StatusOK
       /\ resp.op # "signup" => Len(resp.w.cookies) = 2

C6_Witness ==
  /\ Failed
  /\ resp.now > 100
  /\ resp.out.err.chain = << "DeadlineExceeded" >>
  /\ resp.w.status = StatusInternalServerError
  /\ \E c \in DOMAIN inflight : c.now > 100

----------------------------------------------------------------------------
(* C7 *)

\* C7: two Refresh requests that differ only in the failure the capability
\* returns, among InvalidToken, ExpiredToken and UserNotFound, get the same
\* status, body and headers: the answer to a rejected refresh is the answer
\* the handler gives to every other rejection.
C7_RejectionsIndistinguishable ==
  (resp.op = "refresh" /\ Failed /\ Rejected(resp.out.err)) =>
    \A e \in Errors :
      Rejected(e) =>
        Visible(RefreshAfter([NewWriter EXCEPT !.trace = << "call" >>],
                             resp.now, [val |-> NoTokens, err |-> e]))
          = Visible(resp.w)

----------------------------------------------------------------------------
(* C8 *)

\* C8: a request writes a log entry if and only if its response is a 500,
\* it writes just one, of the error the capability returned, and writes it
\* before the response; 409 and 401 responses, the missing-cookie 401
\* included, log nothing.
C8_LogIffInternalError ==
  Done =>
    /\ (resp.w.logs # <<>>) <=> (resp.w.status = StatusInternalServerError)
    /\ ("log" \in Range(resp.w.trace)) <=> (resp.w.logs # <<>>)
    /\ resp.w.status = StatusInternalServerError =>
         /\ Len(resp.w.logs) = 1
         /\ resp.w.logs[1].err = resp.out.err
         /\ First(resp.w.trace, "log") < First(resp.w.trace, "json")
         /\ Len(SelectSeq(resp.w.trace, LAMBDA x : x = "json")) = 1

C8_Witness ==
  /\ resp.op = "signup"
  /\ resp.w.status = StatusInternalServerError
  /\ resp.w.trace = << "call", "log", "json" >>

----------------------------------------------------------------------------
(* C9 *)

\* C9: the body of every response, on every path of every endpoint, is an
\* object with exactly one field, named message.
C9_BodyIsMessageObject ==
  Done => DOMAIN resp.w.body = {"message"}

----------------------------------------------------------------------------
(* C10 *)

\* C10: against the capability that enforces email uniqueness, in every
\* interleaving of signups: the signup that completes for an email not yet
\* registered gets 200 with "User successfully registered" and no cookie,
\* and registers the email; one that completes for a registered email gets
\* 409, whatever its password; so each email has had one 200 if it is
\* registered and none otherwise.
C10_SignupOncePerEmail ==
  /\ [](\A e \in Emails : okCount[e] = IF e \in users THEN 1 ELSE 0)
  /\ [][(resp'.op = "signup" /\ resp'.returned) =>
          /\ resp'.w.cookies = <<>>
          /\ IF resp'.body.Email \in users
               THEN /\ resp'.w.status = 409
                    /\ users' = users
               ELSE /\ resp'.w.status = 200
                    /\ resp'.w.body = [message |-> "User successfully registered"]
                    /\ users' = users \cup {resp'.body.Email}]_vars

C10_Witness ==
  /\ resp.op = "signup"
  /\ resp.w.status = StatusConflict
  /\ okCount[resp.body.Email] = 1
  /\ inflight # EmptyBag
  /\ users = Emails

====
